---- MODULE Spec2Model ----
(***************************************************************************)
(* A model of the reelscraper scripts: the report deduplication            *)
(* (generate_presigned_urls.py), the favourites matcher                    *)
(* (prepare_demo_assets.py), the session grouping                          *)
(* (add_production_session.py) and the presigned-url pass                  *)
(* (generate_presigned_urls.py).                                           *)
(*                                                                         *)
(* Python strings are strings; formatting, replacing, searching and        *)
(* parsing are computed on their characters and not assumed.  A Python     *)
(* dict is a function whose DOMAIN is the set of keys                      *)
(* present.  A Python object is identified by its position in the input    *)
(* list, so that two equal dicts remain two records.                       *)
(***************************************************************************)
EXTENDS Integers, Sequences, FiniteSets, TLC

VARIABLES
    pc,             \* the position of the script that is being run
    stories,        \* the list of story dicts handed to the operation
    story_ids,      \* prepare_demo_assets: the favourite ids
    kept,           \* positions (in the input list) of the stories returned
    result,         \* the list returned by the last operation
    previous,       \* the list the last operation was applied to, as it was given
    sessions,       \* group_into_sessions: the groups, in first-encounter order
    merged,         \* group_into_sessions: the merged sessions accepted so far
    next_group,     \* group_into_sessions: the next group of `sessions`
    force_regenerate, \* generate_presigned_urls main: args.force_regenerate
    actual_input,   \* generate_presigned_urls main: the file that was loaded
    story_no,       \* process_video_stories: the position of the loop of line 124
    processed,      \* process_video_stories: the counters of lines 119-122
    errors,
    missing,
    reused,
    calls,          \* what each turn of the loop did and asked of the signer
    earlier,        \* the same of the run before, over the file this run loaded
    demo_file,      \* add_production_session: the stories in demo_stories.json
    demo_stories,   \* add_production_session main: demo_stories
    demo_num,       \* add_production_session main: demo_num
    all_session_stories, \* add_production_session main: the stories to add
    new_stories,    \* add_production_session main: the stories added by this run
    allocated,      \* the demo ids the runs before this one have saved
    stages_to_scrape, \* scrape_video_stories main: the stages asked for
    stage_no,       \* scrape_video_stories main: the position of the loop of line 619
    scraped_stories, \* scrape_video_stories main: all_stories, collected so far
    scans           \* what the scan of each stage that was scanned answered

vars == <<pc, stories, story_ids, kept, result, previous, sessions, merged, next_group,
          force_regenerate, actual_input, story_no, processed, errors, missing,
          reused, calls, earlier, demo_file, demo_stories, demo_num,
          all_session_stories, new_stories, allocated, stages_to_scrape, stage_no,
          scraped_stories, scans>>

\* the variables of the allocation of demo ids, and of the scraper
allocVars == <<demo_file, demo_stories, demo_num, all_session_stories, new_stories,
               allocated>>

scrapeVars == <<stages_to_scrape, stage_no, scraped_stories, scans>>

\* the variables of the url pass
passVars == <<force_regenerate, actual_input, story_no, processed, errors, missing,
              reused, calls, earlier>>

\* the variables of the session grouping
sessionVars == <<sessions, merged, next_group>>

----------------------------------------------------------------------------
(* Strings and dicts *)

EmptyStr == ""

\* "".join of two strings
Cat(a, b) == a \o b

\* the k-th character of s
Ch(s, k) == SubSeq(s, k, k)

\* str.replace(old, new) for a one-character old
RECURSIVE Replace(_, _, _)
Replace(s, old, new) ==
    IF s = "" THEN ""
    ELSE (IF Head(s) = old THEN new ELSE Head(s)) \o Replace(Tail(s), old, new)

\* s.startswith(prefix) and (sub in s)
StartsWith(s, prefix) ==
    Len(s) >= Len(prefix) /\ SubSeq(s, 1, Len(prefix)) = prefix

Contains(s, sub) ==
    \E k \in 1..(Len(s) - Len(sub) + 1) : SubSeq(s, k, k + Len(sub) - 1) = sub

\* dict.get(key, default)
Get(d, key, default) == IF key \in DOMAIN d THEN d[key] ELSE default

NoKeys == [k \in {} |-> EmptyStr]

\* the list of the elements of `list` at the positions `idx`, in that order
Pick(list, idx) == [k \in 1..Len(idx) |-> list[idx[k]]]

\* all lists over S of length at most n
SeqsUpTo(S, n) == UNION {[1..k -> S] : k \in 0..n}

----------------------------------------------------------------------------
(* The stories of the report and of the favourites matcher *)

MaxStories == 3

Stages == {"dev", "prod"}
Gamers == {"G#1", "G#2"}
Created == {"10:00:00.5Z"}
Descriptions == {"a", "b"}
\* marks a key that the dict does not have
Missing == "(absent)"

\* a story of a stories file; a file the enricher did not write may hold
\* stories with no _created and no timestamp key (the enricher itself writes
\* _created, 'N/A' when the item has no timestamp, lines 150-151)
EnrichedStory(stage, gamer, created, description) ==
    ("_stage" :> stage) @@ ("GSI1PK" :> gamer) @@ ("_gamer_extracted" :> gamer)
    @@ ("description" :> description)
    @@ (IF created = Missing THEN NoKeys ELSE ("_created" :> created))

\* the stories of the files: of every stage and gamer, with and without a
\* timestamp; the second gamer's come with one description only
StoryPool ==
    {story \in {EnrichedStory(st, g, c, d) :
                    st \in Stages, g \in Gamers, c \in Created \cup {Missing},
                    d \in Descriptions} :
        story["GSI1PK"] = "G#1" \/ story["description"] = "a"}

----------------------------------------------------------------------------
(* generate_html_with_presigned_urls: the deduplication of the report *)

\* the key of one story: f"{gamer}_{timestamp}"
HtmlKey(story) ==
    LET gamer == Get(story, "GSI1PK", Get(story, "_gamer_extracted", EmptyStr))
        timestamp == Get(story, "_created", Get(story, "timestamp", EmptyStr))
    IN  Cat(Cat(gamer, "_"), timestamp)

RECURSIVE DedupLoop(_, _, _, _)
DedupLoop(list, i, seen, out) ==
    IF i > Len(list) THEN out
    ELSE LET key == HtmlKey(list[i])
         IN  IF key \notin seen
             THEN DedupLoop(list, i + 1, seen \cup {key}, Append(out, i))
             ELSE DedupLoop(list, i + 1, seen, out)

\* a slip that keeps the last story of a key instead of the first
RECURSIVE DedupLoopLastWins(_, _)
DedupLoopLastWins(list, i) ==
    IF i > Len(list) THEN <<>>
    ELSE IF \E j \in (i + 1)..Len(list) : HtmlKey(list[j]) = HtmlKey(list[i])
         THEN DedupLoopLastWins(list, i + 1)
         ELSE <<i>> \o DedupLoopLastWins(list, i + 1)

DeduplicatedIndicesLastWins(list) == DedupLoopLastWins(list, 1)

\* a slip that puts each kept story in front of the list (insert(0, story))
RECURSIVE DedupLoopPrepend(_, _, _, _)
DedupLoopPrepend(list, i, seen, out) ==
    IF i > Len(list) THEN out
    ELSE LET key == HtmlKey(list[i])
         IN  IF key \notin seen
             THEN DedupLoopPrepend(list, i + 1, seen \cup {key}, <<i>> \o out)
             ELSE DedupLoopPrepend(list, i + 1, seen, out)

DeduplicatedIndicesPrepend(list) == DedupLoopPrepend(list, 1, {}, <<>>)

\* a key that also holds the stage: f"{stage}_{gamer}_{timestamp}"
RECURSIVE DedupLoopStageKey(_, _, _, _)
DedupLoopStageKey(list, i, seen, out) ==
    IF i > Len(list) THEN out
    ELSE LET key == Cat(Cat(Get(list[i], "_stage", EmptyStr), "_"), HtmlKey(list[i]))
         IN  IF key \notin seen
             THEN DedupLoopStageKey(list, i + 1, seen \cup {key}, Append(out, i))
             ELSE DedupLoopStageKey(list, i + 1, seen, out)

DeduplicatedIndicesStageKey(list) == DedupLoopStageKey(list, 1, {}, <<>>)

\* the positions of the stories that stay in the report
DeduplicatedIndices(list) == DedupLoop(list, 1, {}, <<>>)

----------------------------------------------------------------------------
(* find_stories_by_ids: the favourites matcher *)

\* f"{stage}_{gamer}_{timestamp}".replace('#','_').replace(':','_').replace('.','_')
\* the story id with '' where the story has no timestamp
StoryIdEmptyTime(story) ==
    LET stage == Get(story, "_stage", "unknown")
        gamer == Get(story, "_gamer_extracted", "N/A")
        timestamp == Get(story, "_created", Get(story, "timestamp", ""))
        raw == Cat(Cat(Cat(Cat(stage, "_"), gamer), "_"), timestamp)
    IN  Replace(Replace(Replace(raw, "#", "_"), ":", "_"), ".", "_")

StoryId(story) ==
    LET stage == Get(story, "_stage", "unknown")
        gamer == Get(story, "_gamer_extracted", "N/A")
        timestamp == Get(story, "_created", Get(story, "timestamp", "N/A"))
        raw == Cat(Cat(Cat(Cat(stage, "_"), gamer), "_"), timestamp)
    IN  Replace(Replace(Replace(raw, "#", "_"), ":", "_"), ".", "_")

RECURSIVE FindLoop(_, _, _, _, _)
FindLoop(all_stories, ids, i, seen, matched) ==
    IF i > Len(all_stories) THEN matched
    ELSE LET story_id == StoryId(all_stories[i])
         IN  IF story_id \in ids /\ story_id \notin seen
             THEN FindLoop(all_stories, ids, i + 1, seen \cup {story_id}, Append(matched, i))
             ELSE FindLoop(all_stories, ids, i + 1, seen, matched)

\* the positions of the matched stories
MatchedIndices(all_stories, ids) == FindLoop(all_stories, ids, 1, {}, <<>>)

\* a matched story, with the annotation the matcher writes on it
Annotated(story) == ("_computed_story_id" :> StoryId(story)) @@ story

\* the favourites a user may have exported: every story of the pool, or the
\* stories of the dev stage only
FavouriteSets ==
    {{StoryId(s) : s \in StoryPool},
     {StoryId(s) : s \in {t \in StoryPool : t["_stage"] = "dev"}}}

----------------------------------------------------------------------------
(* Timestamps of add_production_session.py *)

\* A timestamp is the time of day "HH:MM:SSZ"; the date in front of it is the
\* one target_date of main (line 227) in every story and is left out.
Digits == <<"0", "1", "2", "3", "4", "5", "6", "7", "8", "9">>

IsDigit(c) == \E d \in 1..10 : Digits[d] = c

DigitValue(c) == (CHOOSE d \in 1..10 : Digits[d] = c) - 1

TwoDigits(n) == Digits[(n \div 10) + 1] \o Digits[(n % 10) + 1]

\* the timestamp string of the second n of the day
TimeStr(n) ==
    TwoDigits(n \div 3600) \o ":" \o TwoDigits((n % 3600) \div 60)
        \o ":" \o TwoDigits(n % 60) \o "Z"

ValueError == -1

\* datetime.fromisoformat(s.replace('Z', '+00:00')), as seconds of the day;
\* ValueError for a string that is no timestamp (the empty string too)
FromIsoFormat(s) ==
    IF /\ Len(s) = 9
       /\ Ch(s, 3) = ":" /\ Ch(s, 6) = ":" /\ Ch(s, 9) = "Z"
       /\ \A k \in {1, 2, 4, 5, 7, 8} : IsDigit(Ch(s, k))
    THEN LET hh == 10 * DigitValue(Ch(s, 1)) + DigitValue(Ch(s, 2))
             mm == 10 * DigitValue(Ch(s, 4)) + DigitValue(Ch(s, 5))
             ss == 10 * DigitValue(Ch(s, 7)) + DigitValue(Ch(s, 8))
         IN  IF hh < 24 /\ mm < 60 /\ ss < 60
             THEN 3600 * hh + 60 * mm + ss
             ELSE ValueError
    ELSE ValueError

\* ord(c) of the characters of a timestamp
CodePoint(c) ==
    IF IsDigit(c) THEN 48 + DigitValue(c)
    ELSE IF c = ":" THEN 58
    ELSE IF c = "Z" THEN 90
    ELSE 0

\* a < b for Python strings
RECURSIVE StrLess(_, _)
StrLess(a, b) ==
    IF Len(b) = 0 THEN FALSE
    ELSE IF Len(a) = 0 THEN TRUE
    ELSE IF Head(a) = Head(b) THEN StrLess(Tail(a), Tail(b))
    ELSE CodePoint(Head(a)) < CodePoint(Head(b))

\* min(a, b) and max(a, b) of Python: the first argument on a tie
StrMin(a, b) == IF StrLess(b, a) THEN b ELSE a
StrMax(a, b) == IF StrLess(a, b) THEN b ELSE a

Abs(x) == IF x < 0 THEN -x ELSE x

----------------------------------------------------------------------------
(* group_into_sessions *)

MaxSessionStories == 3

MergeThreshold == 600

\* a story as get_production_stories normalises it (lines 80-87): every
\* underscore key is present, '' where the item had no value
ProductionStory(gamer, timestamp, session_start, session_end) ==
    ("_gamer" :> gamer) @@ ("_timestamp" :> timestamp)
    @@ ("_session_start" :> session_start) @@ ("_session_end" :> session_end)

\* the windows (in seconds) that stories carry explicitly
ExplicitWindows == {<<0, 10>>, <<20, 30>>, <<700, 710>>, <<5, 705>>}

\* the timestamps of stories that carry no window
LoneTimes == {0, 300, 610, 611, 1000, 1310}

\* the stories the scoped query may return: those of one gamer, and two of
\* another gamer for the lists that hold more than one
SessionStoryPool ==
    {ProductionStory("G#1", TimeStr(w[1]), TimeStr(w[1]), TimeStr(w[2])) :
        w \in ExplicitWindows}
    \cup {ProductionStory("G#1", TimeStr(t), EmptyStr, EmptyStr) : t \in LoneTimes}
    \cup {ProductionStory("G#2", TimeStr(t), EmptyStr, EmptyStr) : t \in {300, 610}}
    \cup {ProductionStory("G#1", EmptyStr, EmptyStr, EmptyStr)}

\* lines 109-117: the key of the group of a story
SessionKey(story) ==
    LET session_start == Get(story, "_session_start", Get(story, "start", EmptyStr))
        session_end == Get(story, "_session_end", Get(story, "end", EmptyStr))
        timestamp == Get(story, "_timestamp", Get(story, "start", EmptyStr))
    IN  IF session_start # EmptyStr /\ session_end # EmptyStr
        THEN <<session_start, session_end>>
        ELSE <<timestamp, timestamp>>

\* lines 106-119: the defaultdict, as the list of its items in insertion
\* order; the members of a group are positions of the input list
RECURSIVE GroupLoop(_, _, _)
GroupLoop(list, i, groups) ==
    IF i > Len(list) THEN groups
    ELSE LET key == SessionKey(list[i])
         IN  IF \E k \in DOMAIN groups : groups[k].key = key
             THEN LET k == CHOOSE n \in DOMAIN groups : groups[n].key = key
                  IN  GroupLoop(list, i + 1,
                          [groups EXCEPT ![k].members = Append(@, i)])
             ELSE GroupLoop(list, i + 1,
                      Append(groups, [key |-> key, members |-> <<i>>]))

GroupStories(list) == GroupLoop(list, 1, <<>>)

\* the sort key of line 125
SortKey(story) == Get(story, "_timestamp", Get(story, "start", EmptyStr))

\* list.sort(key=...) of line 125: stable, ascending; insertion of each
\* member after the members that are not greater
RECURSIVE InsertSorted(_, _, _)
InsertSorted(list, sorted, i) ==
    IF sorted = <<>> THEN <<i>>
    ELSE IF StrLess(SortKey(list[i]), SortKey(list[Head(sorted)]))
         THEN <<i>> \o sorted
         ELSE <<Head(sorted)>> \o InsertSorted(list, Tail(sorted), i)

RECURSIVE SortMembers(_, _)
SortMembers(list, members) ==
    IF members = <<>> THEN <<>>
    ELSE InsertSorted(list,
             SortMembers(list, SubSeq(members, 1, Len(members) - 1)),
             members[Len(members)])

\* lines 134-137: a timestamp of the four cannot be parsed
CannotParse(key, merged_session) ==
    \/ FromIsoFormat(key[1]) = ValueError
    \/ FromIsoFormat(key[2]) = ValueError
    \/ FromIsoFormat(merged_session.start) = ValueError
    \/ FromIsoFormat(merged_session.end) = ValueError

\* lines 140-142: within 10 minutes or overlapping
CloseOrOverlappingStrict(key, merged_session) ==
    LET start_dt == FromIsoFormat(key[1])
        end_dt == FromIsoFormat(key[2])
        merged_start_dt == FromIsoFormat(merged_session.start)
        merged_end_dt == FromIsoFormat(merged_session.end)
    IN  \/ Abs(start_dt - merged_end_dt) < MergeThreshold
        \/ Abs(end_dt - merged_start_dt) < MergeThreshold
        \/ (start_dt <= merged_end_dt /\ end_dt >= merged_start_dt)

CloseOrOverlapping(key, merged_session) ==
    LET start_dt == FromIsoFormat(key[1])
        end_dt == FromIsoFormat(key[2])
        merged_start_dt == FromIsoFormat(merged_session.start)
        merged_end_dt == FromIsoFormat(merged_session.end)
    IN  \/ Abs(start_dt - merged_end_dt) <= MergeThreshold
        \/ Abs(end_dt - merged_start_dt) <= MergeThreshold
        \/ (start_dt <= merged_end_dt /\ end_dt >= merged_start_dt)

\* lines 129-147, with the last merged session that passes the test taking
\* the group instead of the first
RECURSIVE FindLastMergedSession(_, _, _)
FindLastMergedSession(key, accepted, k) ==
    IF k > Len(accepted) THEN 0
    ELSE IF CannotParse(key, accepted[k]) THEN ValueError
    ELSE LET later == FindLastMergedSession(key, accepted, k + 1)
         IN  IF later # 0 THEN later
             ELSE IF CloseOrOverlapping(key, accepted[k]) THEN k
             ELSE 0

\* lines 129-147: the merged session that takes the group: its position, 0
\* when the loop ends without one, ValueError when fromisoformat raises
RECURSIVE FindMergedSession(_, _, _)
FindMergedSession(key, accepted, k) ==
    IF k > Len(accepted) THEN 0
    ELSE IF CannotParse(key, accepted[k]) THEN ValueError
    ELSE IF CloseOrOverlapping(key, accepted[k]) THEN k
    ELSE FindMergedSession(key, accepted, k + 1)

\* lines 143-145, with the bounds of the session left as they were
AbsorbKeepingBounds(merged_session, key, session_stories) ==
    [start |-> merged_session.start,
     end |-> merged_session.end,
     stories |-> merged_session.stories \o session_stories]

\* lines 143-145, with the bounds of the group taken for those of the session
AbsorbGroupBounds(merged_session, key, session_stories) ==
    [start |-> key[1],
     end |-> key[2],
     stories |-> merged_session.stories \o session_stories]

\* lines 143-145
Absorb(merged_session, key, session_stories) ==
    [start |-> StrMin(merged_session.start, key[1]),
     end |-> StrMax(merged_session.end, key[2]),
     stories |-> merged_session.stories \o session_stories]

----------------------------------------------------------------------------
(* generate_presigned_url and process_video_stories *)

MaxPassStories == 2

\* Python's None, and the truth value of a string or None
None == "(None)"

Truthy(v) == v # None /\ v # ""

\* story[key] = value
SetKey(story, key, value) == (key :> value) @@ story

\* resources.json: the stages and the bucket of each
ConfigStages == {"dev", "prod"}

BucketOf(stage) == "gg-" \o stage

\* args.skip_missing: store_true with default=True (line 1172), so always True
skip_missing == TRUE

\* What the object store and the signer answer to one call of
\* generate_presigned_url:
\*   "ok"           head_object succeeds and the url is signed
\*   "404"          head_object raises ClientError with code 404
\*   "403"          head_object raises ClientError with another code
\*   "timeout"      a call raises an exception that is no ClientError
\*   "credentials"  the same, raised while the credentials are fetched
SignerOutcomes == {"ok", "404", "403", "timeout", "credentials"}

\* the outcomes of the call for a thumbnail: lines 188-190 look only at the
\* ERROR: prefix of the answer
ThumbnailOutcomes == {"ok", "404", "timeout"}

\* str(e) of the exception of each failing outcome
ExceptionText(outcome) ==
    CASE outcome = "403" ->
            "An error occurred (403) when calling the HeadObject operation: Forbidden"
      [] outcome = "timeout" ->
            "Read timeout on endpoint URL"
      [] outcome = "credentials" ->
            "Error when retrieving credentials from custom-process: sh: 1: jq: not found"

\* the url boto3 signs for an object
SignedUrl(bucket_name, object_key) ==
    "https://" \o bucket_name \o ".s3.amazonaws.com/" \o object_key
        \o "?X-Amz-Expires=2592000&X-Amz-Signature=5d"

\* generate_presigned_url, lines 75-100
generate_presigned_url(bucket_name, object_key, outcome) ==
    CASE outcome = "ok" -> SignedUrl(bucket_name, object_key)
      [] outcome = "404" ->
            "ERROR: Object not found: s3://" \o bucket_name \o "/" \o object_key
      [] outcome = "403" ->
            "ERROR: Cannot access object: " \o ExceptionText(outcome)
      [] OTHER ->
            "ERROR: Failed to generate presigned URL: " \o ExceptionText(outcome)

\* lines 128-129 and 182-183: the url exists and looks valid
LooksValidNoQuestionMark(url) ==
    /\ Truthy(url)
    /\ ~StartsWith(url, "ERROR:")
    /\ \/ Contains(url, "X-Amz-Expires=")
       \/ Contains(url, "AWSAccessKeyId=")
       \/ Contains(url, "Signature=")

\* lines 128-129 and 182-183, with the Signature V2 marker only
LooksValidV2Only(url) ==
    /\ Truthy(url)
    /\ ~StartsWith(url, "ERROR:")
    /\ Contains(url, "?")
    /\ Contains(url, "AWSAccessKeyId=")

LooksValid(url) ==
    /\ Truthy(url)
    /\ ~StartsWith(url, "ERROR:")
    /\ Contains(url, "?")
    /\ \/ Contains(url, "X-Amz-Expires=")
       \/ Contains(url, "AWSAccessKeyId=")
       \/ Contains(url, "Signature=")

\* line 127
ExistingUrl(story) == Get(story, "_presigned_url", None)

\* line 142
StageOf(story) == Get(story, "_stage", "unknown")

\* line 155
VideoKey(story) == Get(story, "_video_url", Get(story, "video_url", ""))

\* lines 163-176, with the signer's answer written over the video key as well
WithVideoResultOverKey(story, presigned_url) ==
    SetKey(SetKey(story, "_presigned_url", presigned_url), "_video_url", presigned_url)

\* lines 163-176: the story and the counters after the signer's answer
WithVideoResult(story, presigned_url) ==
    IF StartsWith(presigned_url, "ERROR:")
    THEN IF Contains(presigned_url, "not found")
         THEN IF skip_missing
              THEN SetKey(SetKey(story, "_presigned_url", None),
                          "_presigned_error", "Video file not found")
              ELSE SetKey(story, "_presigned_url", presigned_url)
         ELSE SetKey(story, "_presigned_url", presigned_url)
    ELSE SetKey(story, "_presigned_url", presigned_url)

\* lines 163-176, with a missing video counted nowhere
CounterOfNotMissing(presigned_url) ==
    IF StartsWith(presigned_url, "ERROR:")
    THEN IF Contains(presigned_url, "not found") THEN "skipped" ELSE "errors"
    ELSE "processed"

\* which counter lines 163-176 add one to
CounterOf(presigned_url) ==
    IF StartsWith(presigned_url, "ERROR:")
    THEN IF Contains(presigned_url, "not found") THEN "missing" ELSE "errors"
    ELSE "processed"

\* lines 179-186: a thumbnail url is asked for
ThumbnailWanted(story) ==
    LET existing_thumbnail == Get(story, "_presigned_thumbnail", None)
        thumbnail_key == Get(story, "thumbnail_url", "")
    IN  /\ ~LooksValid(existing_thumbnail)
        /\ Truthy(thumbnail_key)
        /\ thumbnail_key # "N/A"

\* lines 188-190, with a failed thumbnail written over the video's url
WithThumbnailResultOverVideo(story, thumbnail_presigned) ==
    IF ~StartsWith(thumbnail_presigned, "ERROR:")
    THEN SetKey(story, "_presigned_thumbnail", thumbnail_presigned)
    ELSE SetKey(story, "_presigned_url", thumbnail_presigned)

\* lines 188-190
WithThumbnailResult(story, thumbnail_presigned) ==
    IF ~StartsWith(thumbnail_presigned, "ERROR:")
    THEN SetKey(story, "_presigned_thumbnail", thumbnail_presigned)
    ELSE story

\* the stories of the files the pass is run on
PassStory(stage, video_key, url, thumbnail_key, thumbnail) ==
    (IF stage = Missing THEN NoKeys ELSE ("_stage" :> stage))
    @@ (IF video_key = Missing THEN NoKeys ELSE ("_video_url" :> video_key))
    @@ (IF url = Missing THEN NoKeys ELSE ("_presigned_url" :> url))
    @@ (IF thumbnail_key = Missing THEN NoKeys ELSE ("thumbnail_url" :> thumbnail_key))
    @@ (IF thumbnail = Missing THEN NoKeys ELSE ("_presigned_thumbnail" :> thumbnail))

ReusableUrl == "https://x/obj?X-Amz-Expires=600&Signature=abc"

\* urls a stored story may carry
StoredUrls ==
    {"https://x/obj?AWSAccessKeyId=AK&Expires=9",
     "https://x/obj?Signature=abc",
     "https://x/obj?a=1",
     "https://x/obj#Signature=abc",
     "ERROR: not found",
     "ERROR: x?Signature=abc",
     "",
     None}

PassStoryPool ==
    {PassStory("dev", "v.mp4", Missing, "t.jpg", Missing),
     PassStory("dev", "v.mp4", Missing, Missing, Missing),
     PassStory("prod", "v.mp4", Missing, "t.jpg", ReusableUrl),
     PassStory("dev", "v.mp4", ReusableUrl, "t.jpg", Missing),
     PassStory("ghost", "v.mp4", Missing, "t.jpg", Missing),
     PassStory(Missing, "v.mp4", Missing, Missing, Missing),
     PassStory("dev", "N/A", Missing, Missing, Missing),
     PassStory("dev", Missing, Missing, Missing, Missing)}
    \cup {PassStory("dev", Missing, url, Missing, Missing) : url \in StoredUrls}

\* the scraper's output carries no urls
ScrapedStoryPool ==
    {story \in PassStoryPool :
        "_presigned_url" \notin DOMAIN story /\ "_presigned_thumbnail" \notin DOMAIN story}

ScrapedFile == "all_video_stories.json"
PresignedFile == "all_video_stories_presigned.json"

\* main, lines 1194-1198 and 1207-1213: the file that is loaded
ActualInput(args_input, args_force_regenerate, output_exists) ==
    IF ~args_force_regenerate /\ args_input = ScrapedFile /\ output_exists
    THEN PresignedFile
    ELSE args_input

----------------------------------------------------------------------------
(* add_production_session main: the allocation of demo ids *)

\* the script is run again only while the next number is at most this
MaxDemoNum == 4

\* str.replace(old, new) for any non-empty old
RECURSIVE ReplaceSub(_, _, _)
ReplaceSub(s, old, new) ==
    IF s = "" THEN ""
    ELSE IF StartsWith(s, old)
         THEN new \o ReplaceSub(SubSeq(s, Len(old) + 1, Len(s)), old, new)
         ELSE Head(s) \o ReplaceSub(Tail(s), old, new)

\* int(s) succeeds: an optional sign and decimal digits (the surrounding
\* blanks and the underscores int() also takes do not occur in the ids here)
Unsigned(s) ==
    IF Len(s) >= 1 /\ Ch(s, 1) \in {"+", "-"} THEN SubSeq(s, 2, Len(s)) ELSE s

IsIntLiteral(s) ==
    /\ Len(Unsigned(s)) >= 1
    /\ \A k \in 1..Len(Unsigned(s)) : IsDigit(Ch(Unsigned(s), k))

RECURSIVE DecimalValue(_)
DecimalValue(s) ==
    IF s = "" THEN 0
    ELSE 10 * DecimalValue(SubSeq(s, 1, Len(s) - 1)) + DigitValue(Ch(s, Len(s)))

\* int(s) for an s that int() takes
IntOf(s) ==
    IF Len(s) >= 1 /\ Ch(s, 1) = "-"
    THEN 0 - DecimalValue(Unsigned(s))
    ELSE DecimalValue(Unsigned(s))

\* str(n) for n >= 0
RECURSIVE Decimal(_)
Decimal(n) ==
    IF n < 10 THEN Digits[n + 1]
    ELSE Decimal(n \div 10) \o Digits[(n % 10) + 1]

RECURSIVE ZeroPad(_, _)
ZeroPad(s, width) == IF Len(s) >= width THEN s ELSE ZeroPad("0" \o s, width)

\* f"{n:03d}"
Format03d(n) ==
    IF n < 0 THEN "-" \o ZeroPad(Decimal(0 - n), 2) ELSE ZeroPad(Decimal(n), 3)

\* line 258: the number of a story of demo_stories.json
DemoSuffix(demo_story) == ReplaceSub(demo_story["demo_id"], "demostory", "")

\* line 258 raises ValueError: max() of nothing, or int() of no number
MaxNumRaises(list) ==
    \/ Len(list) = 0
    \/ \E k \in 1..Len(list) : ~IsIntLiteral(DemoSuffix(list[k]))

\* line 258 with min() for max()
MinNum(list) ==
    CHOOSE n \in {IntOf(DemoSuffix(list[k])) : k \in 1..Len(list)} :
        \A k \in 1..Len(list) : IntOf(DemoSuffix(list[k])) >= n

\* line 258
MaxNum(list) ==
    CHOOSE n \in {IntOf(DemoSuffix(list[k])) : k \in 1..Len(list)} :
        \A k \in 1..Len(list) : IntOf(DemoSuffix(list[k])) <= n

\* format_story_for_demo, lines 159-183: the fields that name the story
format_story_for_demo(story, demo_id) ==
    [demo_id |-> demo_id,
     video_file |-> demo_id \o ".mp4",
     timestamp |-> Get(story, "_timestamp", Get(story, "start", ""))]

\* a story demo_stories.json holds before the run
StoredDemoStory(demo_id) ==
    [demo_id |-> demo_id, video_file |-> demo_id \o ".mp4", timestamp |-> "stored"]

\* the ids of stored stories: three of the expected form, one with another
\* prefix, one with a suffix that is no number
StoredDemoIds ==
    {"demostory001", "demostory002", "demostory005", "clip007", "demostory00x"}

StoredIdLists ==
    {<<>>,
     <<"demostory001">>,
     <<"demostory001", "demostory002">>,
     <<"demostory002", "demostory001">>,
     <<"demostory001", "demostory002", "demostory005">>,
     <<"demostory005", "demostory001", "demostory002">>,
     <<"demostory001", "clip007">>,
     <<"clip007", "demostory002", "demostory001">>,
     <<"demostory001", "demostory00x">>}

DemoFiles ==
    {[k \in 1..Len(ids) |-> StoredDemoStory(ids[k])] : ids \in StoredIdLists}

\* what get_production_stories and group_into_sessions hand to the
\* allocation: the stories (never none, line 234) and the sessions, the
\* members of a session being positions in the stories, sorted by timestamp
SessionOf(members) == [stories |-> members]

SessionInputs ==
    LET P(n) == ProductionStory("G#1", TimeStr(n), "", "")
    IN  {<<<<P(0)>>, <<SessionOf(<<1>>)>>>>,
         <<<<P(20), P(0)>>, <<SessionOf(<<2, 1>>)>>>>,
         <<<<P(0), P(20), P(700)>>, <<SessionOf(<<1, 2>>), SessionOf(<<3>>)>>>>,
         <<<<P(700), P(0), P(20)>>, <<SessionOf(<<1>>), SessionOf(<<2, 3>>)>>>>}

\* lines 266-268 with the sessions taken last to first
RECURSIVE FlattenLastFirst(_)
FlattenLastFirst(list) ==
    IF list = <<>> THEN <<>> ELSE FlattenLastFirst(Tail(list)) \o Head(list).stories

\* lines 266-268
RECURSIVE Flatten(_)
Flatten(list) ==
    IF list = <<>> THEN <<>> ELSE Head(list).stories \o Flatten(Tail(list))

\* the demo ids of a list of demo stories
DemoIds(list) == {list[k].demo_id : k \in 1..Len(list)}

----------------------------------------------------------------------------
(* scrape_video_stories: the scan of the stages *)

MaxStages == 2

\* the names a user may ask for: the stages of resources.json and one more
RequestedNames == ConfigStages \cup {"ghost"}

\* main, lines 604-614: the stages of --stage or --stages, or else the
\* stages of the configuration in its order
StageLists ==
    (SeqsUpTo(RequestedNames, MaxStages) \ {<<>>}) \cup {<<"dev", "prod">>}

\* resources.json: the table and the region of a stage
TableOf(stage) == "table-" \o stage

RegionOf(stage) == "us-east-1"

\* the items of the table of a stage with an SK that begins with V#, in the
\* order the scan yields them, one page each
VideoItem(sk) == ("SK" :> sk) @@ ("PK" :> "P#1")

TableItems(stage) ==
    IF stage = "dev" THEN <<VideoItem("V#10:00#G#1"), VideoItem("V#11:00#G#2")>>
    ELSE <<VideoItem("V#10:00#G#1"), VideoItem("V#12:00#G#1")>>

\* how a scan ends: every page is read, or table.scan raises after some
\* pages were read
ScanOutcomes(stage) ==
    {[ok |-> TRUE, pages |-> Len(TableItems(stage))]}
    \cup {[ok |-> FALSE, pages |-> n] : n \in 0..(Len(TableItems(stage)) - 1)}

\* lines 109-113: the metadata written on each story
WithStage(story, stage) ==
    ("_stage" :> stage) @@ ("_region" :> RegionOf(stage))
        @@ ("_table" :> TableOf(stage)) @@ story

\* scan_video_stories_from_stage keeping the pages read before a failure
ScanKeepingPages(stage, outcome) ==
    [k \in 1..outcome.pages |-> WithStage(TableItems(stage)[k], stage)]

\* scan_video_stories_from_stage, lines 72-119
scan_video_stories_from_stage(stage, outcome) ==
    IF outcome.ok
    THEN [k \in 1..outcome.pages |-> WithStage(TableItems(stage)[k], stage)]
    ELSE <<>>

----------------------------------------------------------------------------
(* The scripts as a state machine *)

\* no url pass is being run
NoAlloc ==
    /\ demo_file = <<>>
    /\ demo_stories = <<>>
    /\ demo_num = 0
    /\ all_session_stories = <<>>
    /\ new_stories = <<>>
    /\ allocated = {}

NoScrape ==
    /\ stages_to_scrape = <<>>
    /\ stage_no = 0
    /\ scraped_stories = <<>>
    /\ scans = <<>>

NoPass ==
    /\ force_regenerate = FALSE
    /\ actual_input = ""
    /\ story_no = 0
    /\ processed = 0
    /\ errors = 0
    /\ missing = 0
    /\ reused = 0
    /\ calls = <<>>
    /\ earlier = <<>>

InitDedup ==
    /\ NoAlloc
    /\ NoScrape
    /\ pc \in {"report", "favourites"}
    /\ stories \in SeqsUpTo(StoryPool, MaxStories)
    /\ story_ids \in IF pc = "report" THEN {{}} ELSE FavouriteSets
    /\ kept = <<>>
    /\ result = <<>>
    /\ previous = <<>>
    /\ sessions = <<>>
    /\ merged = <<>>
    /\ next_group = 0
    /\ NoPass

\* generate_html_with_presigned_urls, lines 230-244
GenerateHtmlDedup ==
    /\ pc = "report"
    /\ kept' = DeduplicatedIndices(stories)
    /\ result' = Pick(stories, kept')
    /\ previous' = stories
    /\ pc' = "report_done"
    /\ UNCHANGED <<allocVars, scrapeVars, stories, story_ids, sessionVars, passVars>>

\* the report is generated again from the list it has kept
GenerateHtmlDedupAgain ==
    /\ pc = "report_done"
    /\ kept' = DeduplicatedIndices(result)
    /\ result' = Pick(result, kept')
    /\ previous' = result
    /\ pc' = "report_again"
    /\ UNCHANGED <<allocVars, scrapeVars, stories, story_ids, sessionVars, passVars>>

\* find_stories_by_ids
FindStoriesByIds ==
    /\ pc = "favourites"
    /\ kept' = MatchedIndices(stories, story_ids)
    /\ result' = [k \in 1..Len(kept') |-> Annotated(stories[kept'[k]])]
    /\ previous' = stories
    /\ pc' = "favourites_done"
    /\ UNCHANGED <<allocVars, scrapeVars, stories, story_ids, sessionVars, passVars>>

NextDedup == GenerateHtmlDedup \/ GenerateHtmlDedupAgain \/ FindStoriesByIds

SpecDedup == InitDedup /\ [][NextDedup]_vars

InitSessions ==
    /\ NoAlloc
    /\ NoScrape
    /\ pc = "group"
    /\ stories \in SeqsUpTo(SessionStoryPool, MaxSessionStories)
    /\ story_ids = {}
    /\ kept = <<>>
    /\ result = <<>>
    /\ previous = <<>>
    /\ sessions = <<>>
    /\ merged = <<>>
    /\ next_group = 0
    /\ NoPass

\* group_into_sessions, lines 106-122
GroupBySessionKey ==
    /\ pc = "group"
    /\ sessions' = GroupStories(stories)
    /\ merged' = <<>>
    /\ next_group' = 1
    /\ pc' = "merge"
    /\ UNCHANGED <<allocVars, scrapeVars, stories, story_ids, kept, result, previous, passVars>>

\* one turn of the loop of line 123
MergeGroup ==
    /\ pc = "merge"
    /\ next_group <= Len(sessions)
    /\ LET session_key == sessions[next_group].key
           session_stories == SortMembers(stories, sessions[next_group].members)
           k == FindMergedSession(session_key, merged, 1)
       IN  IF k = ValueError
           THEN /\ pc' = "raised"
                /\ UNCHANGED <<allocVars, scrapeVars, merged, next_group>>
           ELSE /\ merged' =
                      IF k = 0
                      THEN Append(merged, [start |-> session_key[1],
                                           end |-> session_key[2],
                                           stories |-> session_stories])
                      ELSE [merged EXCEPT
                               ![k] = Absorb(@, session_key, session_stories)]
                /\ next_group' = next_group + 1
                /\ pc' = "merge"
    /\ UNCHANGED <<allocVars, scrapeVars, stories, story_ids, kept, result, previous, sessions, passVars>>

\* line 156
ReturnMerged ==
    /\ pc = "merge"
    /\ next_group > Len(sessions)
    /\ result' = merged
    /\ pc' = "returned"
    /\ UNCHANGED <<allocVars, scrapeVars, stories, story_ids, kept, previous, sessionVars, passVars>>

NextSessions == GroupBySessionKey \/ MergeGroup \/ ReturnMerged

SpecSessions == InitSessions /\ [][NextSessions]_vars

\* main of generate_presigned_urls.py up to line 1217: the arguments are
\* parsed and the stories of the chosen file are loaded
InitPass ==
    /\ NoAlloc
    /\ NoScrape
    /\ pc = "pass"
    /\ force_regenerate \in BOOLEAN
    /\ \E args_input \in {ScrapedFile, PresignedFile}, output_exists \in BOOLEAN :
          actual_input = ActualInput(args_input, force_regenerate, output_exists)
    /\ stories \in SeqsUpTo(IF actual_input = ScrapedFile
                            THEN ScrapedStoryPool ELSE PassStoryPool,
                            MaxPassStories)
    /\ story_no = 1
    /\ processed = 0
    /\ errors = 0
    /\ missing = 0
    /\ reused = 0
    /\ calls = <<>>
    /\ earlier = <<>>
    /\ story_ids = {}
    /\ kept = <<>>
    /\ result = <<>>
    /\ previous = stories
    /\ sessions = <<>>
    /\ merged = <<>>
    /\ next_group = 0

InLoop == pc = "pass" /\ story_no <= Len(stories)

\* what a turn of the loop did: the branch it took and, when it asked, the
\* answers for the video and for the thumbnail ("-" when none was asked)
Call(branch, video, thumbnail) ==
    [story |-> story_no, branch |-> branch, video |-> video, thumbnail |-> thumbnail]

\* lines 127-139 without the continue of line 139: the thumbnail code of
\* lines 178-190 runs for a story whose url is reused
ReuseExistingUrlThenThumbnail ==
    /\ InLoop
    /\ LooksValid(ExistingUrl(stories[story_no]))
    /\ reused' = reused + 1
    /\ LET story == stories[story_no]
           bucket_name == BucketOf(StageOf(story))
       IN  IF ThumbnailWanted(story)
           THEN \E thumbnail_outcome \in ThumbnailOutcomes :
                  LET thumbnail_presigned ==
                          generate_presigned_url(bucket_name,
                              story["thumbnail_url"], thumbnail_outcome)
                  IN  /\ stories' = [stories EXCEPT ![story_no] =
                             WithThumbnailResult(story, thumbnail_presigned)]
                      /\ calls' = Append(calls, Call("reused", "-", thumbnail_outcome))
           ELSE /\ stories' = stories
                /\ calls' = Append(calls, Call("reused", "-", "-"))
    /\ story_no' = story_no + 1
    /\ UNCHANGED <<allocVars, scrapeVars, pc, story_ids, kept, result, previous, sessionVars,
                   force_regenerate, actual_input, earlier, processed, errors, missing>>

\* lines 127-139: the existing url is reused
ReuseExistingUrl ==
    /\ InLoop
    /\ LooksValid(ExistingUrl(stories[story_no]))
    /\ reused' = reused + 1
    /\ calls' = Append(calls, Call("reused", "-", "-"))
    /\ story_no' = story_no + 1
    /\ UNCHANGED <<allocVars, scrapeVars, pc, stories, story_ids, kept, result, previous, sessionVars,
                   force_regenerate, actual_input, earlier, processed, errors, missing>>

\* lines 142-148: the stage is not in the configuration
SkipUnknownStage ==
    /\ InLoop
    /\ ~LooksValid(ExistingUrl(stories[story_no]))
    /\ StageOf(stories[story_no]) \notin ConfigStages
    /\ errors' = errors + 1
    /\ calls' = Append(calls, Call("unknown_stage", "-", "-"))
    /\ story_no' = story_no + 1
    /\ UNCHANGED <<allocVars, scrapeVars, pc, stories, story_ids, kept, result, previous, sessionVars,
                   force_regenerate, actual_input, earlier, processed, missing, reused>>

\* lines 155-158: the story has no video key
SkipNoVideoKey ==
    /\ InLoop
    /\ ~LooksValid(ExistingUrl(stories[story_no]))
    /\ StageOf(stories[story_no]) \in ConfigStages
    /\ (~Truthy(VideoKey(stories[story_no])) \/ VideoKey(stories[story_no]) = "N/A")
    /\ errors' = errors + 1
    /\ calls' = Append(calls, Call("no_key", "-", "-"))
    /\ story_no' = story_no + 1
    /\ UNCHANGED <<allocVars, scrapeVars, pc, stories, story_ids, kept, result, previous, sessionVars,
                   force_regenerate, actual_input, earlier, processed, missing, reused>>

\* lines 160-190: a url is asked for the video, then one for the thumbnail
SignVideo ==
    /\ InLoop
    /\ ~LooksValid(ExistingUrl(stories[story_no]))
    /\ StageOf(stories[story_no]) \in ConfigStages
    /\ Truthy(VideoKey(stories[story_no]))
    /\ VideoKey(stories[story_no]) # "N/A"
    /\ \E outcome \in SignerOutcomes :
          LET story == stories[story_no]
              bucket_name == BucketOf(StageOf(story))
              presigned_url == generate_presigned_url(bucket_name, VideoKey(story), outcome)
              with_video == WithVideoResult(story, presigned_url)
              counter == CounterOf(presigned_url)
          IN  /\ processed' = IF counter = "processed" THEN processed + 1 ELSE processed
              /\ missing' = IF counter = "missing" THEN missing + 1 ELSE missing
              /\ errors' = IF counter = "errors" THEN errors + 1 ELSE errors
              /\ IF ThumbnailWanted(with_video)
                 THEN \E thumbnail_outcome \in ThumbnailOutcomes :
                        LET thumbnail_presigned ==
                                generate_presigned_url(bucket_name,
                                    with_video["thumbnail_url"], thumbnail_outcome)
                        IN  /\ stories' = [stories EXCEPT ![story_no] =
                                   WithThumbnailResult(with_video, thumbnail_presigned)]
                            /\ calls' = Append(calls,
                                   Call("signed", outcome, thumbnail_outcome))
                 ELSE /\ stories' = [stories EXCEPT ![story_no] = with_video]
                      /\ calls' = Append(calls, Call("signed", outcome, "-"))
    /\ story_no' = story_no + 1
    /\ UNCHANGED <<allocVars, scrapeVars, pc, story_ids, kept, result, previous, sessionVars,
                   force_regenerate, actual_input, earlier, reused>>

\* line 213
ReturnStories ==
    /\ pc = "pass"
    /\ story_no > Len(stories)
    /\ result' = stories
    /\ pc' = "pass_done"
    /\ UNCHANGED <<allocVars, scrapeVars, stories, story_ids, kept, previous, sessionVars, passVars>>

NextPass ==
    ReuseExistingUrl \/ SkipUnknownStage \/ SkipNoVideoKey \/ SignVideo \/ ReturnStories

SpecPass == InitPass /\ [][NextPass]_vars

\* add_production_session main at line 249: the stories are fetched and
\* grouped, demo_stories.json is about to be read
InitAllocate ==
    /\ NoPass
    /\ NoScrape
    /\ pc = "alloc_load"
    /\ demo_file \in DemoFiles
    /\ \E input \in SessionInputs :
          /\ stories = input[1]
          /\ result = input[2]
    /\ demo_stories = <<>>
    /\ demo_num = 0
    /\ all_session_stories = <<>>
    /\ new_stories = <<>>
    /\ allocated = {}
    /\ story_ids = {}
    /\ kept = <<>>
    /\ previous = <<>>
    /\ sessions = <<>>
    /\ merged = <<>>
    /\ next_group = 0

\* lines 249-255
LoadDemoStories ==
    /\ pc = "alloc_load"
    /\ demo_stories' = demo_file
    /\ pc' = "alloc_next"
    /\ UNCHANGED <<stories, story_ids, kept, result, previous, sessionVars, passVars,
                   scrapeVars, demo_file, demo_num, all_session_stories, new_stories,
                   allocated>>

\* line 258 raising only after a first id was given out and saved
FindNextIdRaisesAfterSaving ==
    /\ pc = "alloc_next"
    /\ MaxNumRaises(demo_stories)
    /\ pc' = "alloc_raised"
    /\ new_stories' = <<format_story_for_demo(stories[1], "demostory001")>>
    /\ demo_file' = Append(demo_file, format_story_for_demo(stories[1], "demostory001"))
    /\ UNCHANGED <<stories, story_ids, kept, result, previous, sessionVars, passVars,
                   scrapeVars, demo_stories, demo_num, all_session_stories, allocated>>

\* line 258 raises ValueError and the script ends
FindNextIdRaises ==
    /\ pc = "alloc_next"
    /\ MaxNumRaises(demo_stories)
    /\ pc' = "alloc_raised"
    /\ UNCHANGED <<stories, story_ids, kept, result, previous, sessionVars, passVars,
                   scrapeVars, allocVars>>

\* lines 258-268
FindNextId ==
    /\ pc = "alloc_next"
    /\ ~MaxNumRaises(demo_stories)
    /\ demo_num' = MaxNum(demo_stories) + 1
    /\ new_stories' = <<>>
    /\ all_session_stories' = Flatten(result)
    /\ pc' = "alloc_add"
    /\ UNCHANGED <<stories, story_ids, kept, result, previous, sessionVars, passVars,
                   scrapeVars, demo_file, demo_stories, allocated>>

\* lines 270-277: one turn of the loop
AddStory ==
    /\ pc = "alloc_add"
    /\ Len(new_stories) < Len(all_session_stories)
    /\ LET story == stories[all_session_stories[Len(new_stories) + 1]]
           demo_id == "demostory" \o Format03d(demo_num)
           demo_story == format_story_for_demo(story, demo_id)
       IN  /\ new_stories' = Append(new_stories, demo_story)
           /\ demo_stories' = Append(demo_stories, demo_story)
    /\ demo_num' = demo_num + 1
    /\ UNCHANGED <<pc, stories, story_ids, kept, result, previous, sessionVars,
                   passVars, scrapeVars, demo_file, all_session_stories, allocated>>

\* lines 279-282
SaveDemoStories ==
    /\ pc = "alloc_add"
    /\ Len(new_stories) = Len(all_session_stories)
    /\ demo_file' = demo_stories
    /\ pc' = "alloc_done"
    /\ UNCHANGED <<stories, story_ids, kept, result, previous, sessionVars, passVars,
                   scrapeVars, demo_stories, demo_num, all_session_stories,
                   new_stories, allocated>>

\* between two runs a story is taken out of demo_stories.json
DeleteDemoStory ==
    /\ pc = "alloc_done"
    /\ \E k \in 1..Len(demo_file) :
          demo_file' = SubSeq(demo_file, 1, k - 1) \o SubSeq(demo_file, k + 1, Len(demo_file))
    /\ UNCHANGED <<pc, stories, story_ids, kept, result, previous, sessionVars,
                   passVars, scrapeVars, demo_stories, demo_num, all_session_stories,
                   new_stories, allocated>>

\* the script is run once more, with the stories of another day
AllocateAgain ==
    /\ pc = "alloc_done"
    /\ demo_num <= MaxDemoNum
    /\ pc' = "alloc_load"
    /\ \E input \in SessionInputs :
          /\ stories' = input[1]
          /\ result' = input[2]
    /\ allocated' = allocated \cup DemoIds(new_stories)
    /\ demo_stories' = <<>>
    /\ demo_num' = 0
    /\ all_session_stories' = <<>>
    /\ new_stories' = <<>>
    /\ UNCHANGED <<story_ids, kept, previous, sessionVars, passVars, scrapeVars,
                   demo_file>>

NextAllocate ==
    \/ LoadDemoStories
    \/ FindNextIdRaises
    \/ FindNextId
    \/ AddStory
    \/ SaveDemoStories
    \/ DeleteDemoStory
    \/ AllocateAgain

SpecAllocate == InitAllocate /\ [][NextAllocate]_vars

\* scrape_video_stories main at line 617: the stages are chosen, nothing is
\* collected yet
InitScrape ==
    /\ NoPass
    /\ NoAlloc
    /\ pc = "scrape"
    /\ stages_to_scrape \in StageLists
    /\ stage_no = 1
    /\ scraped_stories = <<>>
    /\ scans = <<>>
    /\ stories = <<>>
    /\ story_ids = {}
    /\ kept = <<>>
    /\ result = <<>>
    /\ previous = <<>>
    /\ sessions = <<>>
    /\ merged = <<>>
    /\ next_group = 0

\* lines 620-622: the stage is not in the configuration
SkipStage ==
    /\ pc = "scrape"
    /\ stage_no <= Len(stages_to_scrape)
    /\ stages_to_scrape[stage_no] \notin ConfigStages
    /\ scans' = Append(scans, [stage |-> stages_to_scrape[stage_no],
                               scanned |-> FALSE, ok |-> FALSE, pages |-> 0])
    /\ stage_no' = stage_no + 1
    /\ UNCHANGED <<pc, stories, story_ids, kept, result, previous, sessionVars,
                   passVars, allocVars, stages_to_scrape, scraped_stories>>

\* lines 624-629: the stage is scanned and its stories are added
ScanStage ==
    /\ pc = "scrape"
    /\ stage_no <= Len(stages_to_scrape)
    /\ stages_to_scrape[stage_no] \in ConfigStages
    /\ \E outcome \in ScanOutcomes(stages_to_scrape[stage_no]) :
          /\ scraped_stories' = scraped_stories
                \o scan_video_stories_from_stage(stages_to_scrape[stage_no], outcome)
          /\ scans' = Append(scans, [stage |-> stages_to_scrape[stage_no],
                                     scanned |-> TRUE, ok |-> outcome.ok,
                                     pages |-> outcome.pages])
    /\ stage_no' = stage_no + 1
    /\ UNCHANGED <<pc, stories, story_ids, kept, result, previous, sessionVars,
                   passVars, allocVars, stages_to_scrape>>

\* lines 631-632: every stage had its turn
CollectionDone ==
    /\ pc = "scrape"
    /\ stage_no > Len(stages_to_scrape)
    /\ pc' = "scrape_done"
    /\ result' = scraped_stories
    /\ UNCHANGED <<stories, story_ids, kept, previous, sessionVars, passVars,
                   allocVars, scrapeVars>>

NextScrape == SkipStage \/ ScanStage \/ CollectionDone

SpecScrape == InitScrape /\ [][NextScrape]_vars

\* main run once more, on the file the last run saved (lines 1207-1227): the
\* default input without --force-regenerate, or --input naming that file
RunAgain ==
    /\ pc = "pass_done"
    /\ pc' = "pass"
    /\ force_regenerate' \in BOOLEAN
    /\ actual_input' = PresignedFile
    /\ stories' = result
    /\ previous' = result
    /\ earlier' = calls
    /\ story_no' = 1
    /\ processed' = 0
    /\ errors' = 0
    /\ missing' = 0
    /\ reused' = 0
    /\ calls' = <<>>
    /\ UNCHANGED <<allocVars, scrapeVars, story_ids, kept, result, sessionVars>>

MaxRunStories == 1

\* the first of the runs: no output file yet, the scraped file is loaded
InitRuns ==
    /\ NoAlloc
    /\ NoScrape
    /\ pc = "pass"
    /\ force_regenerate \in BOOLEAN
    /\ actual_input = ActualInput(ScrapedFile, force_regenerate, FALSE)
    /\ stories \in SeqsUpTo(ScrapedStoryPool, MaxRunStories)
    /\ story_no = 1
    /\ processed = 0
    /\ errors = 0
    /\ missing = 0
    /\ reused = 0
    /\ calls = <<>>
    /\ earlier = <<>>
    /\ story_ids = {}
    /\ kept = <<>>
    /\ result = <<>>
    /\ previous = stories
    /\ sessions = <<>>
    /\ merged = <<>>
    /\ next_group = 0

NextRuns == NextPass \/ RunAgain

SpecRuns == InitRuns /\ [][NextRuns]_vars

----------------------------------------------------------------------------
(* Deduplication: C1, C2, C3 *)

Range(list) == {list[k] : k \in DOMAIN list}

Increasing(idx) == \A a, b \in DOMAIN idx : a < b => idx[a] < idx[b]

\* the components of the identity key, read from a story
SourceTagOf(story) == Get(story, "_stage", "unknown")
EntityIdOf(story) == Get(story, "GSI1PK", Get(story, "_gamer_extracted", EmptyStr))
TimestampOf(story) == Get(story, "_created", Get(story, "timestamp", EmptyStr))

SameEntityAndTime(a, b) ==
    EntityIdOf(a) = EntityIdOf(b) /\ TimestampOf(a) = TimestampOf(b)

SameTriple(a, b) == SourceTagOf(a) = SourceTagOf(b) /\ SameEntityAndTime(a, b)

\* C1: deduplication keeps at most one record per key and the survivor is the
\* first one in input order: in the report a record stays exactly when no
\* earlier record has its key, and the favourites matcher returns a favourite
\* exactly when no earlier record has its id; in both, no two returned
\* records have the same (stage, gamer, timestamp).
C1_FirstSeenWins ==
    /\ pc = "report_done" =>
          /\ \A i \in 1..Len(previous) :
                i \in Range(kept) <=>
                    ~\E j \in 1..(i - 1) : HtmlKey(previous[j]) = HtmlKey(previous[i])
          /\ \A a, b \in DOMAIN result :
                a # b => ~SameTriple(result[a], result[b])
    /\ pc = "favourites_done" =>
          /\ \A i \in 1..Len(previous) :
                i \in Range(kept) <=>
                    /\ StoryId(previous[i]) \in story_ids
                    /\ ~\E j \in 1..(i - 1) : StoryId(previous[j]) = StoryId(previous[i])
          /\ \A a, b \in DOMAIN result :
                a # b => ~SameTriple(result[a], result[b])

\* two records with one key and different descriptions: the first one stays
C1_Witness ==
    /\ pc = "report_done"
    /\ \E i, j \in 1..Len(previous) :
          /\ i < j
          /\ HtmlKey(previous[i]) = HtmlKey(previous[j])
          /\ previous[i]["description"] # previous[j]["description"]
          /\ i \in Range(kept)
          /\ j \notin Range(kept)

\* C2 as stated: a record is dropped only if an earlier record has the same
\* sourceTag and the same entityId and the same timestamp.
C2_AsStated ==
    /\ pc = "report_done" =>
          \A i \in 1..Len(previous) :
              i \notin Range(kept) =>
                  \E j \in 1..(i - 1) : SameTriple(previous[j], previous[i])
    /\ pc = "favourites_done" =>
          \A i \in 1..Len(previous) :
              (StoryId(previous[i]) \in story_ids /\ i \notin Range(kept)) =>
                  \E j \in 1..(i - 1) : SameTriple(previous[j], previous[i])

\* C2 (amended): the report keys on the string entityId + "_" + timestamp,
\* without the stage: a record is dropped exactly when an earlier record
\* gives the same string, so whenever an earlier record has the same entityId
\* and timestamp, whatever its stage; only the favourites matcher
\* keys on the stage too, and there a favourite is left out exactly when an
\* earlier record has the same stage, gamer and timestamp.
C2_ReportKeyHasNoStage ==
    /\ pc = "report_done" =>
          \A i \in 1..Len(previous) :
              /\ i \notin Range(kept) <=>
                    \E j \in 1..(i - 1) :
                        Cat(Cat(EntityIdOf(previous[j]), "_"), TimestampOf(previous[j]))
                          = Cat(Cat(EntityIdOf(previous[i]), "_"), TimestampOf(previous[i]))
              /\ (\E j \in 1..(i - 1) : SameEntityAndTime(previous[j], previous[i]))
                    => i \notin Range(kept)
    /\ pc = "favourites_done" =>
          \A i \in 1..Len(previous) :
              StoryId(previous[i]) \in story_ids =>
                  (i \notin Range(kept) <=>
                      \E j \in 1..(i - 1) : SameTriple(previous[j], previous[i]))

\* the report drops a story of another stage
C2_Witness ==
    /\ pc = "report_done"
    /\ \E i, j \in 1..Len(previous) :
          /\ i < j
          /\ SameEntityAndTime(previous[i], previous[j])
          /\ SourceTagOf(previous[i]) # SourceTagOf(previous[j])
          /\ i \in Range(kept)
          /\ j \notin Range(kept)

\* C3: the report's deduplication is order-preserving (the output is a
\* subsequence of the input) and idempotent (applied to its own output it
\* returns that output, dropping nothing).
C3_IdempotentOrderPreserving ==
    /\ pc \in {"report_done", "report_again"} =>
          /\ Increasing(kept)
          /\ Range(kept) \subseteq 1..Len(previous)
          /\ result = Pick(previous, kept)
    /\ pc = "report_again" =>
          /\ result = previous
          /\ kept = [k \in 1..Len(previous) |-> k]

\* a second run over the output of a run that dropped something
C3_Witness ==
    /\ pc = "report_again"
    /\ Len(result) >= 2
    /\ Len(result) < Len(stories)

----------------------------------------------------------------------------
(* Session clustering: C4, C5, C6 *)

\* the call of group_into_sessions has ended, by a return or by an exception
ClusteringEnded == pc \in {"returned", "raised"}

\* how many sessions of the list have the input position i among their members
Memberships(list, i) ==
    Cardinality({<<k, m>> \in (DOMAIN list) \X (1..Len(stories)) :
                    m \in DOMAIN list[k].stories /\ list[k].stories[m] = i})

PartitionsInput(list) ==
    /\ \A i \in 1..Len(stories) : Memberships(list, i) = 1
    /\ \A k \in DOMAIN list : Range(list[k].stories) \subseteq 1..Len(stories)

WindowGroups == {SessionKey(stories[i]) : i \in 1..Len(stories)}

\* C4: for every input, every input record appears in exactly one output
\* session's member list, and there are at most as many sessions as distinct
\* window groups.
C4_AsStated ==
    ClusteringEnded =>
        /\ pc = "returned"
        /\ PartitionsInput(result)
        /\ Len(result) <= Cardinality(WindowGroups)

\* what the code does keep: a call that returns partitions its input
C4_PartitionWhenReturned ==
    pc = "returned" =>
        /\ PartitionsInput(result)
        /\ Len(result) <= Cardinality(WindowGroups)

\* the merge rule of the claim, in seconds, against the bounds a session has
\* when the group is looked at
MergeRule(key, accepted) ==
    LET newStart == FromIsoFormat(key[1])
        newEnd == FromIsoFormat(key[2])
        acceptedStart == FromIsoFormat(accepted.start)
        acceptedEnd == FromIsoFormat(accepted.end)
    IN  \/ Abs(newStart - acceptedEnd) <= 600
        \/ Abs(newEnd - acceptedStart) <= 600
        \/ (newStart <= acceptedEnd /\ newEnd >= acceptedStart)

\* the input is the two windows a then b (stories of one group each)
TwoWindows(a, b) ==
    /\ Len(sessions) = 2
    /\ sessions[1].key = <<TimeStr(a[1]), TimeStr(a[2])>>
    /\ sessions[2].key = <<TimeStr(b[1]), TimeStr(b[2])>>

\* C5: a group is merged into an accepted session exactly when one satisfies
\* |newStart - acceptedEnd| <= 600 or |newEnd - acceptedStart| <= 600 or the
\* intervals overlap, against its current bounds, and the session that takes
\* it satisfies the rule; the threshold is inclusive: [0,10] and [20,30]
\* merge, [0,10] and [700,710] do not, a gap of 600 s merges, 601 s does not.
C5_MergeRule ==
    /\ [][(pc = "merge" /\ next_group' = next_group + 1) =>
            LET key == sessions[next_group].key
            IN  /\ (Len(merged') = Len(merged)) <=>
                       \E k \in DOMAIN merged : MergeRule(key, merged[k])
                /\ Len(merged') \in {Len(merged), Len(merged) + 1}
                /\ \A k \in DOMAIN merged :
                       merged'[k] # merged[k] => MergeRule(key, merged[k])]_vars
    /\ [](pc = "returned" =>
            /\ TwoWindows(<<0, 10>>, <<20, 30>>) => Len(result) = 1
            /\ TwoWindows(<<0, 10>>, <<700, 710>>) => Len(result) = 2
            /\ TwoWindows(<<0, 10>>, <<610, 610>>) => Len(result) = 1
            /\ TwoWindows(<<0, 10>>, <<611, 611>>) => Len(result) = 2)

\* a gap of exactly 600 s has merged
C5_Witness ==
    /\ pc = "returned"
    /\ TwoWindows(<<0, 10>>, <<610, 610>>)
    /\ Len(result) = 1
    /\ result[1].start = TimeStr(0)
    /\ result[1].end = TimeStr(610)

----------------------------------------------------------------------------
(* The url pass: C7, C8, C9, C10 *)

\* the turns of the loop taken so far that satisfy Test
Turns(Test(_)) == {k \in 1..Len(calls) : Test(calls[k])}

\* the story of a turn as it was loaded: a turn is the first to touch its story
Loaded(call) == previous[call.story]

\* the handle starts with the error marker
HasErrorMarker(handle) == Len(handle) >= 6 /\ SubSeq(handle, 1, 6) = "ERROR:"

\* the reuse rule of the claim
ReusableAsClaimed(handle) ==
    /\ handle # None
    /\ handle # ""
    /\ ~HasErrorMarker(handle)
    /\ \E k \in 1..Len(handle) : SubSeq(handle, k, k) = "?"
    /\ \E marker \in {"X-Amz-Expires=", "AWSAccessKeyId=", "Signature="} :
          \E k \in 1..(Len(handle) - Len(marker) + 1) :
              SubSeq(handle, k, k + Len(marker) - 1) = marker

\* C7: an existing handle is reused if and only if it is non-null and
\* non-empty, does not start with "ERROR:", contains "?" and contains one of
\* "X-Amz-Expires=", "AWSAccessKeyId=", "Signature="; so
\* "https://x/obj?X-Amz-Expires=600&Signature=abc" is reused, "ERROR: not found"
\* is not, and a handle with "?" but no marker is not.
C7_ReusedIffLooksValid ==
    /\ \A k \in 1..Len(calls) :
          /\ calls[k].branch = "reused" <=>
                 ReusableAsClaimed(ExistingUrl(Loaded(calls[k])))
          /\ ExistingUrl(Loaded(calls[k])) = ReusableUrl => calls[k].branch = "reused"
          /\ ExistingUrl(Loaded(calls[k])) \in {"ERROR: not found", "https://x/obj?a=1"}
                 => calls[k].branch # "reused"
          /\ calls[k].branch = "reused" => stories[calls[k].story] = Loaded(calls[k])
    /\ reused = Cardinality(Turns(LAMBDA call : call.branch = "reused"))

\* one pass has reused a handle and has not reused one with "?" and no marker
C7_Witness ==
    /\ pc = "pass_done"
    /\ \E j, k \in 1..Len(calls) :
          /\ calls[j].branch = "reused"
          /\ ExistingUrl(Loaded(calls[j])) = ReusableUrl
          /\ calls[k].branch # "reused"
          /\ ExistingUrl(Loaded(calls[k])) = "https://x/obj?a=1"

\* C8: when forceRegenerate is set no existing handle is reused, whether or
\* not it is structurally reusable, and the reused counter is 0 at the end
\* of the pass.
C8_AsStated ==
    force_regenerate =>
        /\ reused = 0
        /\ \A k \in 1..Len(calls) : calls[k].branch # "reused"

SignerFailed(call) == call.branch = "signed" /\ call.video \notin {"ok", "404"}

\* C9: a record is counted missing, with a null url, exactly when the object
\* store answered 404; every other signer failure is counted as an error; a
\* success sets the url and is counted as generated.
C9_AsStated ==
    /\ missing = Cardinality(Turns(LAMBDA call : call.video = "404"))
    /\ processed = Cardinality(Turns(LAMBDA call : call.video = "ok"))
    /\ errors = Cardinality(Turns(LAMBDA call : call.branch \in {"unknown_stage", "no_key"}))
                + Cardinality(Turns(SignerFailed))
    /\ \A k \in 1..Len(calls) :
          calls[k].branch = "signed" =>
              LET url == stories[calls[k].story]["_presigned_url"]
              IN  /\ url = None <=> calls[k].video = "404"
                  /\ calls[k].video = "ok" => (url # None /\ ~HasErrorMarker(url))

\* a turn that failed for its record
Failed(call) ==
    \/ call.branch \in {"unknown_stage", "no_key"}
    \/ call.branch = "signed" /\ call.video # "ok"

\* the story carries the annotation of a failure
FailureRecorded(story) ==
    \/ "_presigned_error" \in DOMAIN story
    \/ /\ "_presigned_url" \in DOMAIN story
       /\ story["_presigned_url"] # None
       /\ HasErrorMarker(story["_presigned_url"])

\* C10: the pass goes through every record and returns all of them, and every
\* per-record failure (unknown stage, absent key, object not found, signer
\* error or timeout) is recorded in the record's own annotation and counted.
C10_AsStated ==
    /\ errors + missing = Cardinality(Turns(Failed))
    /\ \A k \in 1..Len(calls) :
          Failed(calls[k]) => FailureRecorded(stories[calls[k].story])
    /\ pc = "pass_done" =>
          /\ Len(calls) = Len(previous)
          /\ Len(result) = Len(previous)
          /\ \A i \in 1..Len(previous) : calls[i].story = i

----------------------------------------------------------------------------
(* The url pass: C11, C12 *)

\* what lines 160-176 leave on the story of a turn, the thumbnail apart
VideoPart(call) ==
    WithVideoResult(Loaded(call),
        generate_presigned_url(BucketOf(StageOf(Loaded(call))),
                               VideoKey(Loaded(call)), call.video))

\* the value of a key, or that the key is absent
Field(story, key) == Get(story, key, Missing)

\* C11: a thumbnail failure never changes the outcome of the video handle:
\* the video url, its error annotation and the counters are what the video's
\* own answer makes them, whether the thumbnail request succeeds, fails or is
\* not made.
C11_ThumbnailLeavesVideoAlone ==
    /\ \A k \in 1..Len(calls) :
          calls[k].branch = "signed" =>
              /\ Field(stories[calls[k].story], "_presigned_url")
                     = Field(VideoPart(calls[k]), "_presigned_url")
              /\ Field(stories[calls[k].story], "_presigned_error")
                     = Field(VideoPart(calls[k]), "_presigned_error")
    /\ processed = Cardinality(Turns(LAMBDA call : call.video = "ok"))
    /\ missing = Cardinality(Turns(LAMBDA call : call.video \in {"404", "credentials"}))
    /\ errors = Cardinality(Turns(LAMBDA call :
                    \/ call.branch \in {"unknown_stage", "no_key"}
                    \/ call.video \in {"403", "timeout"}))
    /\ reused = Cardinality(Turns(LAMBDA call : call.branch = "reused"))

\* a video was signed while its thumbnail failed, another while its thumbnail
\* was signed, a third with no thumbnail asked
C11_Witness ==
    /\ \E k \in 1..Len(calls) :
          /\ calls[k].video = "ok"
          /\ calls[k].thumbnail \in {"404", "timeout"}
          /\ ~HasErrorMarker(stories[calls[k].story]["_presigned_url"])
          /\ "_presigned_thumbnail" \notin DOMAIN stories[calls[k].story]
    /\ \E k \in 1..Len(calls) :
          /\ calls[k].branch = "signed"
          /\ calls[k].thumbnail \in {"ok", "-"}

\* the signer was asked for the video, for the thumbnail, in a turn
VideoAsked(call) == call.video # "-"

ThumbnailAsked(call) == call.thumbnail # "-"

\* the answer was a failure
VideoFailed(call) == call.video \notin {"ok", "-"}

ThumbnailFailed(call) == call.thumbnail \notin {"ok", "-"}

\* in one pass each record has at most one turn, hence at most one request for
\* its video key and at most one for its thumbnail key
OncePerPass ==
    \A i \in 1..Len(stories) :
        Cardinality(Turns(LAMBDA call : call.story = i)) <= 1

\* C12: no retries within a pass: the signer is asked at most once for each
\* record's video key and at most once for its thumbnail key; a handle that
\* failed in one pass is not reusable and is asked for again in the next pass.
C12_AsStated ==
    /\ OncePerPass
    /\ \A k \in 1..Len(calls) :
          k <= Len(earlier) =>
              /\ VideoFailed(earlier[k]) => VideoAsked(calls[k])
              /\ ThumbnailFailed(earlier[k]) => ThumbnailAsked(calls[k])

\* what the code does keep: one request per key and pass, and a failed video
\* handle is asked for again in the next pass
C12_VideoAskedAgain ==
    /\ OncePerPass
    /\ \A k \in 1..Len(calls) :
          k <= Len(earlier) => (VideoFailed(earlier[k]) => VideoAsked(calls[k]))

----------------------------------------------------------------------------
(* The allocation of demo ids: C13 to C17 *)

ExpectedPrefix == "demostory"

\* the id has the expected prefix and a decimal number after it
WellFormedId(id) ==
    /\ Len(id) > Len(ExpectedPrefix)
    /\ SubSeq(id, 1, Len(ExpectedPrefix)) = ExpectedPrefix
    /\ \A k \in (Len(ExpectedPrefix) + 1)..Len(id) :
          SubSeq(id, k, k) \in {"0", "1", "2", "3", "4", "5", "6", "7", "8", "9"}

\* the number after the prefix of a well-formed id
RECURSIVE NumberOfDigits(_)
NumberOfDigits(text) ==
    IF Len(text) = 0 THEN 0
    ELSE 10 * NumberOfDigits(SubSeq(text, 1, Len(text) - 1))
         + (CHOOSE d \in 0..9 : Digits[d + 1] = SubSeq(text, Len(text), Len(text)))

SuffixNumber(id) == NumberOfDigits(SubSeq(id, Len(ExpectedPrefix) + 1, Len(id)))

\* the prefix and the number, zero-padded to three digits (numbers below 1000)
PaddedId(n) ==
    ExpectedPrefix \o Digits[(n \div 100) + 1] \o Digits[((n \div 10) % 10) + 1]
        \o Digits[(n % 10) + 1]

\* the stories the run found in the file: demo_stories without the new ones
Existing == SubSeq(demo_stories, 1, Len(demo_stories) - Len(new_stories))

ExistingNumbers ==
    {SuffixNumber(Existing[k].demo_id) :
        k \in {j \in 1..Len(Existing) : WellFormedId(Existing[j].demo_id)}}

\* the largest of a non-empty set of numbers
Largest(S) == CHOOSE n \in S : \A m \in S : m <= n

\* ids have been given out in this run
Allocating == pc \in {"alloc_add", "alloc_done"} /\ Len(new_stories) >= 1

\* C13: the next allocated id is the prefix and the zero-padded
\* max(existing numeric suffixes) + 1; gaps are never filled: with 001, 002,
\* 005 the next id is 006, not 003.
C13_NextIsMaxPlusOne ==
    Allocating =>
        /\ ExistingNumbers # {}
        /\ new_stories[1].demo_id = PaddedId(Largest(ExistingNumbers) + 1)
        /\ ExistingNumbers = {1, 2, 5} => new_stories[1].demo_id = "demostory006"

\* with 001, 002, 005 in the file the first new id is 006
C13_Witness ==
    /\ Allocating
    /\ DemoIds(Existing) = {"demostory001", "demostory002", "demostory005"}
    /\ new_stories[1].demo_id = "demostory006"

\* how many stories the sessions before session i have
RECURSIVE MembersBefore(_)
MembersBefore(i) ==
    IF i <= 1 THEN 0 ELSE MembersBefore(i - 1) + Len(result[i - 1].stories)

\* C14: the new items get max+1, max+2, ..., max+count in the order they are
\* presented (sessions in output order, members in member order); no two new
\* items share an id and no new id equals an existing id.
C14_BatchInOrder ==
    pc \in {"alloc_add", "alloc_done"} =>
        /\ \A k \in 1..Len(new_stories) :
              /\ new_stories[k].demo_id = PaddedId(Largest(ExistingNumbers) + k)
              /\ demo_stories[Len(Existing) + k] = new_stories[k]
        /\ \A i \in 1..Len(result) :
              \A j \in 1..Len(result[i].stories) :
                  MembersBefore(i) + j <= Len(new_stories) =>
                      new_stories[MembersBefore(i) + j].timestamp
                          = stories[result[i].stories[j]]["_timestamp"]
        /\ \A j, k \in 1..Len(new_stories) :
              j # k => new_stories[j].demo_id # new_stories[k].demo_id
        /\ \A k \in 1..Len(new_stories) :
              new_stories[k].demo_id \notin DemoIds(Existing)
        /\ pc = "alloc_done" =>
              Len(new_stories) = MembersBefore(Len(result) + 1)

\* three stories of two sessions were added and saved
C14_Witness ==
    /\ pc = "alloc_done"
    /\ Len(result) = 2
    /\ Len(new_stories) = 3
    /\ demo_file = demo_stories
    /\ stories[result[1].stories[1]]["_timestamp"] = TimeStr(700)

\* C15: ids are never reused: across runs against the persisted set,
\* including runs after persisted ids (possibly the maximum) were deleted, no
\* id allocated in an earlier run is allocated again.
C15_AsStated == DemoIds(new_stories) \cap allocated = {}

\* C16: allocation with no existing ids fails with an error before any id is
\* assigned and before anything is persisted: the stored set is unchanged.
C16_EmptyFails ==
    /\ [](Allocating => Len(Existing) >= 1)
    /\ [](pc = "alloc_raised" => (new_stories = <<>> /\ demo_file = demo_stories))
    /\ [][(pc = "alloc_next" /\ demo_stories = <<>>) =>
            (pc' = "alloc_raised" /\ demo_file' = demo_file
                /\ new_stories' = new_stories)]_vars

\* a run over an empty file has failed
C16_Witness ==
    /\ pc = "alloc_raised"
    /\ demo_stories = <<>>
    /\ demo_file = <<>>

\* C17: only existing ids with the expected prefix contribute to the maximum:
\* an id with another prefix or a non-numeric suffix is ignored, it neither
\* makes the allocation fail nor changes the next id.
C17_AsStated ==
    /\ (pc = "alloc_raised" => ExistingNumbers = {})
    /\ Allocating => new_stories[1].demo_id = PaddedId(Largest(ExistingNumbers) + 1)

----------------------------------------------------------------------------
(* Sessions and keys: C18, C19 *)

\* C18: the session clusterer is total: for every input, records with a
\* missing, empty or malformed timestamp or bounds included, it returns a
\* result and never raises.
C18_AsStated == pc # "raised"

\* the story has neither a _created nor a timestamp key
NoTimestamp(story) == "_created" \notin DOMAIN story /\ "timestamp" \notin DOMAIN story

\* the favourite id of a story without timestamp, with the given text in the
\* place of the time
FavouriteIdWithTime(story, time) ==
    Replace(story["_stage"], "#", "_") \o "_"
        \o Replace(story["_gamer_extracted"], "#", "_") \o "_" \o time

\* what both deduplications do with the stories that have no timestamp, the
\* time component apart: of the stories of one entity (report) or of one
\* stage and entity (favourites) only the first is retained
FirstWithoutTimestampStays ==
    /\ pc = "report_done" =>
          \A i \in 1..Len(previous) :
              NoTimestamp(previous[i]) =>
                  (i \in Range(kept) <=>
                      ~\E j \in 1..(i - 1) :
                          /\ NoTimestamp(previous[j])
                          /\ EntityIdOf(previous[j]) = EntityIdOf(previous[i]))
    /\ pc = "favourites_done" =>
          \A i \in 1..Len(previous) :
              NoTimestamp(previous[i]) =>
                  (i \in Range(kept) <=>
                      /\ StoryId(previous[i]) \in story_ids
                      /\ ~\E j \in 1..(i - 1) :
                            /\ NoTimestamp(previous[j])
                            /\ SourceTagOf(previous[j]) = SourceTagOf(previous[i])
                            /\ EntityIdOf(previous[j]) = EntityIdOf(previous[i]))

\* C19 as stated: records with a missing timestamp use the empty string as
\* the time component of the key, in the report and in the favourites; those
\* of one (sourceTag, entityId) collapse and only the first is retained.
C19_AsStated ==
    /\ FirstWithoutTimestampStays
    /\ pc = "favourites_done" =>
          \A k \in 1..Len(kept) :
              NoTimestamp(previous[kept[k]]) =>
                  result[k]["_computed_story_id"]
                      = FavouriteIdWithTime(previous[kept[k]], "")

\* C19 (amended): the favourites matcher puts 'N/A', not the empty string, in
\* the place of a missing timestamp: the id it matches and writes on the
\* record is stage_gamer_N/A; the report puts the empty string and no stage.
\* In both, the records without timestamp of one entity (report) or of one
\* stage and entity (favourites) collapse and only the first is retained.
C19_MissingTimestampKey ==
    /\ FirstWithoutTimestampStays
    /\ pc = "favourites_done" =>
          \A k \in 1..Len(kept) :
              NoTimestamp(previous[kept[k]]) =>
                  /\ result[k]["_computed_story_id"]
                         = FavouriteIdWithTime(previous[kept[k]], "N/A")
                  /\ FavouriteIdWithTime(previous[kept[k]], "N/A") \in story_ids

\* two favourites of one stage and gamer without timestamp: the first stays
C19_Witness ==
    /\ pc = "favourites_done"
    /\ \E i, j \in 1..Len(previous) :
          /\ i < j
          /\ NoTimestamp(previous[i])
          /\ NoTimestamp(previous[j])
          /\ SourceTagOf(previous[i]) = SourceTagOf(previous[j])
          /\ EntityIdOf(previous[i]) = EntityIdOf(previous[j])
          /\ previous[i]["description"] # previous[j]["description"]
          /\ i \in Range(kept)
          /\ j \notin Range(kept)

----------------------------------------------------------------------------
(* The scan of the stages: C20 *)

\* the scan of a turn failed, or the stage of the turn was not configured
NoSource(scan) == ~scan.scanned \/ ~scan.ok

\* what the stage of a turn has to contribute
Contribution(scan) ==
    IF NoSource(scan) THEN <<>>
    ELSE [k \in 1..Len(TableItems(scan.stage)) |->
             ("_stage" :> scan.stage) @@ TableItems(scan.stage)[k]]

\* the stories collected in the first n turns, in stage order
RECURSIVE Collected(_)
Collected(n) == IF n = 0 THEN <<>> ELSE Collected(n - 1) \o Contribution(scans[n])

\* the keys of the items, the metadata the scan adds apart
Item(story) == [key \in {"SK", "PK", "_stage"} |-> story[key]]

\* C20: a missing or failing source is fatal to that source only: a stage that
\* is not in the configuration or whose scan fails contributes no records and
\* the records of every other requested stage are still collected, in stage
\* order.
C20_OtherStagesCollected ==
    /\ Len(scans) = stage_no - 1
    /\ \A k \in 1..Len(scans) : scans[k].stage = stages_to_scrape[k]
    /\ Len(scraped_stories) = Len(Collected(Len(scans)))
    /\ \A k \in 1..Len(scraped_stories) :
          Item(scraped_stories[k]) = Item(Collected(Len(scans))[k])
    /\ pc = "scrape_done" =>
          /\ Len(scans) = Len(stages_to_scrape)
          /\ result = scraped_stories

\* a first stage failed after a page, or was not configured, and the stage
\* after it was collected
C20_Witness ==
    /\ pc = "scrape_done"
    /\ Len(scans) = 2
    /\ (~scans[1].scanned \/ (~scans[1].ok /\ scans[1].pages = 1))
    /\ scans[2].scanned
    /\ scans[2].ok
    /\ Len(result) >= 1
    /\ \A k \in 1..Len(result) : result[k]["_stage"] = scans[2].stage

-----------------------------------------------------------------------------
(* C21: the fields the pass and the favourite matcher leave alone *)

\* the pass of generate_presigned_urls.py and the matcher of
\* prepare_demo_assets.py, each on a list of its own
InitCore == InitPass \/ (InitDedup /\ pc = "favourites")

NextCore == NextPass \/ FindStoriesByIds

SpecCore == InitCore /\ [][NextCore]_vars

HandleAnnotations == {"_presigned_url", "_presigned_error", "_presigned_thumbnail"}

IdentityAnnotations == {"_computed_story_id"}

\* after has the fields of before with their values, the written ones aside
SameObserved(before, after, written) ==
    /\ DOMAIN after \ written = DOMAIN before \ written
    /\ \A key \in DOMAIN before \ written : after[key] = before[key]

\* C21: at every point of the handle pass the list has the length it was
\* loaded with and each record, at its input position, has every field other
\* than the signed url, the error annotation and the thumbnail url as loaded;
\* the list returned is that list.  After favourite matching each returned
\* record is an input record with every field other than the computed story
\* id as it was, and the returned records are in input order.
C21_ObservedFieldsKept ==
    /\ pc \in {"pass", "pass_done"} =>
          /\ Len(stories) = Len(previous)
          /\ \A i \in 1..Len(stories) :
                SameObserved(previous[i], stories[i], HandleAnnotations)
    /\ pc = "pass_done" => result = stories
    /\ pc = "favourites_done" =>
          /\ Increasing(kept)
          /\ Len(result) = Len(kept)
          /\ \A k \in 1..Len(kept) :
                /\ kept[k] \in 1..Len(previous)
                /\ SameObserved(previous[kept[k]], result[k], IdentityAnnotations)

\* a pass has ended that wrote on both of its two records
C21_Witness ==
    /\ pc = "pass_done"
    /\ Len(result) = 2
    /\ \A i \in 1..2 : result[i] # previous[i]

\* two favourites were matched and annotated
C21_WitnessFavourites ==
    /\ pc = "favourites_done"
    /\ Len(result) = 2
    /\ Len(previous) = 3

-----------------------------------------------------------------------------
(* C22: an interrupt during the pass *)

\* The only signal the program can be sent from outside is the interpreter's
\* interrupt (SIGINT).  Neither process_video_stories nor main handles
\* KeyboardInterrupt: it leaves the loop of lines 124-200 at the turn it
\* arrives in, line 213 is not reached, and main ends before save_to_json
\* (line 1227), so nothing is returned and nothing is written.
Interrupt ==
    /\ InLoop
    /\ pc' = "interrupted"
    /\ UNCHANGED <<allocVars, scrapeVars, stories, story_ids, kept, result, previous,
                   sessionVars, passVars>>

NextInterrupt == NextPass \/ Interrupt

SpecInterrupt == InitPass /\ [][NextInterrupt]_vars

\* C22: once the signal has arrived during the pass, the pass has returned
\* the list as it stood, with the answers of the requests made so far on its
\* records.  (The loop is sequential: at most one request is in flight, and
\* after the signal no turn of the loop runs.)
C22_AsStated == pc = "interrupted" => result = stories

-----------------------------------------------------------------------------
(* C23: the merge is greedy and takes the first match *)

\* the groups are in the order in which their first story is met
FirstEncounterOrder ==
    /\ \A g \in DOMAIN sessions :
          /\ sessions[g].members # <<>>
          /\ Increasing(sessions[g].members)
          /\ \A i \in 1..Len(stories) :
                SessionKey(stories[i]) = sessions[g].key <=>
                    i \in Range(sessions[g].members)
    /\ \A g, h \in DOMAIN sessions :
          g < h => sessions[g].members[1] < sessions[h].members[1]

\* the accepted sessions that satisfy the merge rule for the key
Matching(key, accepted) == {k \in DOMAIN accepted : MergeRule(key, accepted[k])}

\* the input has the three groups a, c, b, met in this order
ThreeWindows(a, c, b) ==
    /\ Len(sessions) = 3
    /\ sessions[1].key = <<TimeStr(a[1]), TimeStr(a[2])>>
    /\ sessions[2].key = <<TimeStr(c[1]), TimeStr(c[2])>>
    /\ sessions[3].key = <<TimeStr(b[1]), TimeStr(b[2])>>

\* C23: the groups are taken one per turn in the order in which they were
\* first met in the input (not by start time); on a turn the group's members
\* go to the end of the first accepted session, in acceptance order, that
\* satisfies the merge rule, and every other accepted session is left as it
\* is (none is looked at again, none is merged with another); when no
\* accepted session satisfies the rule the group is appended as a new one.
C23_GreedyFirstMatch ==
    /\ [](pc \in {"merge", "returned", "raised"} => FirstEncounterOrder)
    /\ [][(pc = "merge" /\ next_group' = next_group + 1) =>
            LET key == sessions[next_group].key
                members == sessions[next_group].members
                matching == Matching(key, merged)
            IN  IF matching = {}
                THEN /\ Len(merged') = Len(merged) + 1
                     /\ SubSeq(merged', 1, Len(merged)) = merged
                     /\ merged'[Len(merged')].start = key[1]
                     /\ merged'[Len(merged')].end = key[2]
                     /\ Range(merged'[Len(merged')].stories) = Range(members)
                ELSE LET first == CHOOSE k \in matching :
                                      \A other \in matching : k <= other
                     IN  /\ Len(merged') = Len(merged)
                         /\ SubSeq(merged'[first].stories, 1,
                                   Len(merged[first].stories)) = merged[first].stories
                         /\ Range(merged'[first].stories) =
                                Range(merged[first].stories) \cup Range(members)
                         /\ \A k \in DOMAIN merged :
                                k # first => merged'[k] = merged[k]]_vars

\* the group met last, a story at 300 s (earlier than the group met second),
\* is within 600 s of both accepted sessions [0,10] and [700,710] and went to
\* the first
C23_Witness ==
    /\ pc = "returned"
    /\ ThreeWindows(<<0, 10>>, <<700, 710>>, <<300, 300>>)
    /\ Len(result) = 2
    /\ result[1].end = TimeStr(300)
    /\ Len(result[2].stories) = 1

-----------------------------------------------------------------------------
(* C24: sessions that overlap in the result *)

\* the intervals of two sessions have a point in common
Overlapping(s, t) ==
    /\ FromIsoFormat(s.start) <= FromIsoFormat(t.end)
    /\ FromIsoFormat(t.start) <= FromIsoFormat(s.end)

\* the window of a key, as a session
AsSession(key) == [start |-> key[1], end |-> key[2], stories |-> <<>>]

\* three groups met in the order a, c, b: c satisfies no part of the merge
\* rule with a, and b overlaps both
ChainMetOutOfOrder ==
    /\ Len(sessions) = 3
    /\ \A g \in 1..3 : \A j \in 1..2 : FromIsoFormat(sessions[g].key[j]) # ValueError
    /\ ~MergeRule(sessions[2].key, AsSession(sessions[1].key))
    /\ Overlapping(AsSession(sessions[3].key), AsSession(sessions[1].key))
    /\ Overlapping(AsSession(sessions[3].key), AsSession(sessions[2].key))

\* C24: when three windows that chain by overlap are met in the order a, c,
\* b (c disjoint and far from a, b overlapping both), the result is two
\* sessions, a widened by b and c as it was, and their intervals overlap; met
\* in the order a, b, c the same windows give one session: [0,10], [700,710],
\* [5,705] give [0,705] and [700,710], while [0,10], [5,705], [700,710] give
\* [0,710].
C24_OverlapReachable ==
    pc = "returned" =>
        /\ ChainMetOutOfOrder =>
              /\ Len(result) = 2
              /\ result[1].start = StrMin(sessions[1].key[1], sessions[3].key[1])
              /\ result[1].end = StrMax(sessions[1].key[2], sessions[3].key[2])
              /\ result[2].start = sessions[2].key[1]
              /\ result[2].end = sessions[2].key[2]
              /\ Overlapping(result[1], result[2])
        /\ ThreeWindows(<<0, 10>>, <<700, 710>>, <<5, 705>>) =>
              /\ Len(result) = 2
              /\ result[1].start = TimeStr(0) /\ result[1].end = TimeStr(705)
              /\ result[2].start = TimeStr(700) /\ result[2].end = TimeStr(710)
        /\ ThreeWindows(<<0, 10>>, <<5, 705>>, <<700, 710>>) =>
              /\ Len(result) = 1
              /\ result[1].start = TimeStr(0) /\ result[1].end = TimeStr(710)

\* the two sessions [0,705] and [700,710] have been returned
C24_Witness ==
    /\ pc = "returned"
    /\ ThreeWindows(<<0, 10>>, <<700, 710>>, <<5, 705>>)
    /\ ChainMetOutOfOrder
    /\ Len(result) = 2
    /\ Overlapping(result[1], result[2])

\* the same windows met in the order that chains have given one session
C24_WitnessOneSession ==
    /\ pc = "returned"
    /\ ThreeWindows(<<0, 10>>, <<5, 705>>, <<700, 710>>)
    /\ Len(result) = 1

-----------------------------------------------------------------------------
(* C25: the bounds of a session after a merge *)

Earlier(a, b) == IF FromIsoFormat(a) <= FromIsoFormat(b) THEN a ELSE b

Later(a, b) == IF FromIsoFormat(a) >= FromIsoFormat(b) THEN a ELSE b

\* the session's interval contains the window of each of its members
ContainsMembers(session) ==
    \A i \in Range(session.stories) :
        /\ FromIsoFormat(session.start) <= FromIsoFormat(SessionKey(stories[i])[1])
        /\ FromIsoFormat(SessionKey(stories[i])[2]) <= FromIsoFormat(session.end)

\* C25: a merge sets the session's start to the earlier of its start and the
\* group's start and its end to the later of its end and the group's end;
\* with timestamps of one format and start <= end in every window, every
\* accepted session has start <= end and contains the window of every group
\* it has absorbed; later groups are tested against the widened bounds:
\* stories at 0 s and 300 s give one session [0,300] and a third at 1000 s,
\* 700 s from that end, gives a second session, while a third at 610 s, more
\* than 600 s from 0 but 310 s from the widened end, joins the first.
C25_WidenedBounds ==
    /\ [][(pc = "merge" /\ next_group' = next_group + 1) =>
            LET key == sessions[next_group].key
            IN  \A k \in DOMAIN merged :
                    merged'[k] # merged[k] =>
                        /\ merged'[k].start = Earlier(merged[k].start, key[1])
                        /\ merged'[k].end = Later(merged[k].end, key[2])]_vars
    /\ [](pc \in {"merge", "returned"} =>
            \A k \in DOMAIN merged :
                /\ FromIsoFormat(merged[k].start) <= FromIsoFormat(merged[k].end)
                /\ ContainsMembers(merged[k]))
    /\ [](pc = "returned" =>
            /\ ThreeWindows(<<0, 0>>, <<300, 300>>, <<1000, 1000>>) =>
                  /\ Len(result) = 2
                  /\ result[1].start = TimeStr(0) /\ result[1].end = TimeStr(300)
                  /\ result[2].start = TimeStr(1000) /\ result[2].end = TimeStr(1000)
            /\ ThreeWindows(<<0, 0>>, <<300, 300>>, <<610, 610>>) =>
                  /\ Len(result) = 1
                  /\ result[1].start = TimeStr(0) /\ result[1].end = TimeStr(610))

\* stories at 0 s, 300 s and 1000 s have given the sessions [0,300] and
\* [1000,1000]
C25_Witness ==
    /\ pc = "returned"
    /\ ThreeWindows(<<0, 0>>, <<300, 300>>, <<1000, 1000>>)
    /\ Len(result) = 2
    /\ result[1].end = TimeStr(300)

\* a story joined a session through its widened end only
C25_WitnessWidened ==
    /\ pc = "returned"
    /\ ThreeWindows(<<0, 0>>, <<300, 300>>, <<610, 610>>)
    /\ Len(result) = 1

-----------------------------------------------------------------------------
(* C26: the order of a session's members *)

\* the members are in ascending order of their timestamp
SortedByTimestamp(members) ==
    \A a, b \in DOMAIN members :
        a < b => ~StrLess(SortKey(stories[members[b]]), SortKey(stories[members[a]]))

\* C26: in the result every session's member list is sorted ascending by
\* timestamp, also when the session was formed by merging several groups, in
\* whatever order the groups were met.
C26_AsStated ==
    pc = "returned" => \A k \in DOMAIN result : SortedByTimestamp(result[k].stories)

\* what the code does keep: the members a session takes from one group are
\* sorted among themselves
C26_SortedWithinGroup ==
    pc = "returned" =>
        \A k \in DOMAIN result : \A g \in DOMAIN sessions :
            \A a, b \in DOMAIN result[k].stories :
                (/\ a < b
                 /\ result[k].stories[a] \in Range(sessions[g].members)
                 /\ result[k].stories[b] \in Range(sessions[g].members))
                => ~StrLess(SortKey(stories[result[k].stories[b]]),
                            SortKey(stories[result[k].stories[a]]))

-----------------------------------------------------------------------------
(* C27: the four counters *)

Counted == processed + reused + missing + errors

\* C27: every turn of the loop adds one to exactly one of the four counters
\* (generated, reused, missing, error) and leaves the others; after the first
\* k records generated + reused + missing + error = k, and at the end the sum
\* is the number of input records.
C27_EachRecordCountedOnce ==
    /\ [](pc \in {"pass", "pass_done"} =>
            /\ Counted = story_no - 1
            /\ Counted = Len(calls))
    /\ [](pc = "pass_done" => Counted = Len(stories) /\ Counted = Len(previous))
    /\ [][story_no' = story_no + 1 =>
            /\ Counted' = Counted + 1
            /\ processed' \in {processed, processed + 1}
            /\ reused' \in {reused, reused + 1}
            /\ missing' \in {missing, missing + 1}
            /\ errors' \in {errors, errors + 1}]_vars

\* a pass over two records has ended with one missing and one reused
C27_Witness ==
    /\ pc = "pass_done"
    /\ Len(stories) = 2
    /\ missing = 1
    /\ reused = 1

-----------------------------------------------------------------------------
(* C29: a record whose video handle is reusable *)

HasNoThumbnailHandle(story) == "_presigned_thumbnail" \notin DOMAIN story

\* C29: a record loaded with a reusable video handle is left as it was
\* loaded: its turn of the loop asks the signer neither for the video nor for
\* the thumbnail, and no field of it is written; in particular a record with a
\* reusable video handle and no thumbnail handle has no thumbnail handle after
\* the pass.
C29_ReusableLeftUnchanged ==
    /\ \A k \in 1..Len(calls) :
          ReusableAsClaimed(ExistingUrl(Loaded(calls[k]))) =>
              /\ ~VideoAsked(calls[k])
              /\ ~ThumbnailAsked(calls[k])
              /\ stories[calls[k].story] = Loaded(calls[k])
    /\ pc = "pass_done" =>
          \A i \in 1..Len(previous) :
              ReusableAsClaimed(ExistingUrl(previous[i])) =>
                  /\ result[i] = previous[i]
                  /\ HasNoThumbnailHandle(previous[i]) => HasNoThumbnailHandle(result[i])

\* the pass has ended over a record with a reusable video handle, a thumbnail
\* key and no thumbnail handle
C29_Witness ==
    /\ pc = "pass_done"
    /\ \E i \in 1..Len(previous) :
          /\ ReusableAsClaimed(ExistingUrl(previous[i]))
          /\ HasNoThumbnailHandle(previous[i])
          /\ Truthy(Get(previous[i], "thumbnail_url", EmptyStr))
          /\ HasNoThumbnailHandle(result[i])

-----------------------------------------------------------------------------
(* C28: a signed url and the "not found" annotation on one record *)

\* generate_html_with_presigned_urls, lines 230-244: the stories of the report
ReportStories(list) == Pick(list, DeduplicatedIndices(list))

\* line 251: the stories counted as available
ReportAvailable(list) ==
    {k \in 1..Len(ReportStories(list)) :
        LET url == Get(ReportStories(list)[k], "_presigned_url", None)
        IN  Truthy(url) /\ ~StartsWith(url, "ERROR:")}

\* line 252: the stories counted as missing
ReportMissing(list) ==
    {k \in 1..Len(ReportStories(list)) :
        Truthy(Get(ReportStories(list)[k], "_presigned_error", None))}

\* the record has a usable signed video url and the "not found" annotation
UrlAndNotFound(story) ==
    /\ Truthy(ExistingUrl(story))
    /\ ~HasErrorMarker(ExistingUrl(story))
    /\ Get(story, "_presigned_error", None) = "Video file not found"

\* C28: after any number of passes over the same records, whatever the
\* object store answered in each, no record has both a usable signed video
\* url and the "not found" error annotation; the records the report counts as
\* available and those it counts as missing are disjoint, and available +
\* missing <= total.
C28_AsStated ==
    pc = "pass_done" =>
        /\ \A i \in 1..Len(result) : ~UrlAndNotFound(result[i])
        /\ ReportAvailable(result) \cap ReportMissing(result) = {}
        /\ Cardinality(ReportAvailable(result)) + Cardinality(ReportMissing(result))
               <= Len(ReportStories(result))

\* what the code does keep within a single pass over scraped records
C28_FirstPass ==
    (pc = "pass_done" /\ earlier = <<>>) =>
        /\ \A i \in 1..Len(result) : ~UrlAndNotFound(result[i])
        /\ ReportAvailable(result) \cap ReportMissing(result) = {}

-----------------------------------------------------------------------------
(* C30: handles are stable across runs *)

\* the turn left the record with a video handle it generated or reused
Succeeded(call) ==
    \/ call.branch = "reused"
    \/ call.branch = "signed" /\ call.video = "ok"

\* the pass runs on the output of an earlier pass, without --force-regenerate
SecondPass == earlier # <<>> /\ ~force_regenerate

\* C30: in a pass run without force on the output of the previous pass
\* (the signer's urls holding "?" and a marker), every record whose video
\* handle was generated or reused in the previous pass is counted reused,
\* keeps the url it had and causes no signer request, for the video or for the
\* thumbnail; when every record succeeded in the previous pass the pass
\* returns the records as it loaded them and reused is their number.
C30_StableAcrossRuns ==
    SecondPass =>
        /\ \A k \in 1..Len(calls) :
              Succeeded(earlier[k]) =>
                  /\ calls[k].branch = "reused"
                  /\ ~VideoAsked(calls[k])
                  /\ ~ThumbnailAsked(calls[k])
                  /\ ExistingUrl(stories[k]) = ExistingUrl(previous[k])
                  /\ Truthy(ExistingUrl(stories[k]))
        /\ reused >= Cardinality({k \in 1..Len(calls) : Succeeded(earlier[k])})
        /\ (pc = "pass_done" /\ \A k \in 1..Len(earlier) : Succeeded(earlier[k])) =>
              /\ result = previous
              /\ reused = Len(result)
              /\ processed = 0 /\ missing = 0 /\ errors = 0

\* a pass without force has ended on the output of a pass that signed its
\* record, and reused the handle
C30_Witness ==
    /\ pc = "pass_done"
    /\ SecondPass
    /\ Len(calls) = 1
    /\ earlier[1].branch = "signed"
    /\ earlier[1].video = "ok"
    /\ calls[1].branch = "reused"
    /\ result = previous
====
